---- MODULE Spec2Model ----
(***************************************************************************)
(* State/query layer of the Budgie shopping app: the three Redux slices    *)
(* (products, cart, wishlist) combined by configureStore, the              *)
(* fetchProducts thunk, and the actions dispatched against them.           *)
(*                                                                         *)
(* Money is modelled in integer cents.  Text is a sequence of one-letter   *)
(* strings.  A value of type `T | null` or `T | undefined` is a sequence   *)
(* of length at most one (None / Some(v)).                                 *)
(***************************************************************************)
EXTENDS Integers, Sequences, FiniteSets, TLC

VARIABLES
  products,       \* state.products
  cart,           \* state.cart
  wishlist,       \* state.wishlist
  inflight,       \* request ids of the fetchProducts thunks not yet settled
  started,        \* number of fetchProducts thunks dispatched so far
  last,           \* the action dispatched last, and whether its id was found
  lastDone,       \* the completion that arrived last
  lastFulfilled,  \* Some(payload of the last fulfilled completion), or None
  overlapped,     \* two thunks have been in flight at once
  settled,        \* a completion has arrived since the latest dispatch
  view,           \* what the view computed last from the state (useMemo)
  searchBar,      \* SearchBar: inputValue and the timer of handleSearch
  cleared         \* the clear button was pressed and no text typed since

vars ==
  <<products, cart, wishlist, inflight, started, last, lastDone,
    lastFulfilled, overlapped, settled, view, searchBar, cleared>>

history == <<lastDone, lastFulfilled, overlapped, settled>>

----------------------------------------------------------------------------
(* Bounds of the model *)

\* product ids are 1..MaxId
MaxId == 2
\* addToCart and updateQuantity are exercised up to this quantity
MaxQty == 3
\* updateQuantity is exercised with quantities down to -NegQty
NegQty == 2
\* number of fetchProducts thunks dispatched in one run
MaxFetches == 2
\* the derived views are computed over lists of up to MaxShown items
MaxShown == 3

Ids == 1..MaxId

----------------------------------------------------------------------------
(* Optional values *)

None == <<>>

Some(v) == <<v>>

\* JavaScript's  a ?? b
Coalesce(opt, default) == IF opt = None THEN default ELSE opt[1]

----------------------------------------------------------------------------
(* Text *)

toUpperCase(c) ==
  CASE c = "a" -> "A"
    [] c = "b" -> "B"
    [] c = "c" -> "C"
    [] OTHER -> c

\* capitalizeWords: split on ' ', upper-case the first letter of every word,
\* join with ' '.  The first letter of a word is the letter at position 1 or
\* right after a space.
capitalizeWords(str) ==
  [i \in 1..Len(str) |->
     IF i = 1 \/ str[i - 1] = " " THEN toUpperCase(str[i]) ELSE str[i]]

----------------------------------------------------------------------------
(* Upstream product source *)

UpstreamTitle(id) == IF id = 1 THEN <<"a", "b">> ELSE <<"b", "c">>

UpstreamCategory(id) == IF id = 1 THEN <<"a", " ", "c">> ELSE <<"b">>

\* prices in cents; record v of an id is the same product at another price
UpstreamPrice(id, v) == IF v = 1 THEN 1000 * id - 1 ELSE 1000 * id + 500

UpstreamRecord(id, v) ==
  [id |-> id, title |-> UpstreamTitle(id), price |-> UpstreamPrice(id, v),
   description |-> <<"c", "A">>, category |-> UpstreamCategory(id),
   image |-> id]

\* the values of Math.floor(Math.random() * 41 + 10), all in 10..50, that
\* the store specifications draw
Draws == {12, 50}

----------------------------------------------------------------------------
(* productsSlice: discount generation *)

\* Math.floor in place of Math.round
roundedDiscount_floor(randomDiscount) == (randomDiscount \div 5) * 5

\* Math.round(randomDiscount / 5) * 5
roundedDiscount(randomDiscount) == ((2 * randomDiscount + 5) \div 10) * 5

\* toFixed(2) cutting the digits after the second instead of rounding
round2_floor(n) == n \div 100

\* Number(x.toFixed(2)) of x = n / 100 cents, n >= 0
round2(n) == (n + 50) \div 100

generateDiscount(price, randomDiscount) ==
  LET percentage == roundedDiscount(randomDiscount)
      discountedPrice == round2(price * (100 - percentage))
  IN  [percentage |-> percentage,
       discountedPrice |-> discountedPrice,
       savings |-> round2(100 * (price - discountedPrice))]

\* one element of data.map in fetchProducts
Ingest(raw, randomDiscount) ==
  [id |-> raw.id, title |-> raw.title, price |-> raw.price,
   description |-> raw.description,
   category |-> capitalizeWords(raw.category), image |-> raw.image,
   discount |-> generateDiscount(raw.price, randomDiscount)]

\* the payload the views build from a product for addToCart / addToWishlist
Snapshot(product) ==
  [id |-> product.id, title |-> product.title, price |-> product.price,
   image |-> product.image, discount |-> product.discount]

\* payloads of addToCart: every product as first fetched, and as fetched
\* again at its other price and with the other discount
Payloads ==
  {Snapshot(Ingest(UpstreamRecord(id, v), IF v = 1 THEN 12 ELSE 50)) :
     id \in Ids, v \in 1..2}

----------------------------------------------------------------------------
(* cartSlice *)

cartInitialState ==
  [items |-> <<>>, totalItems |-> 0, totalPrice |-> 0, totalDiscount |-> 0,
   isOpen |-> FALSE]

RECURSIVE reduceTotals(_, _, _)
reduceTotals(items, i, acc) ==
  IF i > Len(items) THEN acc
  ELSE LET item == items[i]
           itemTotal == item.price * item.quantity
           discountedTotal == item.discount.discountedPrice * item.quantity
       IN  reduceTotals(items, i + 1,
             [totalItems |-> acc.totalItems + item.quantity,
              totalPrice |-> acc.totalPrice + itemTotal,
              totalDiscount |-> acc.totalDiscount + (itemTotal - discountedTotal)])

\* calculateTotals adding up the discounted totals as totalDiscount
calculateTotals_discounted(items) ==
  LET totals == reduceTotals(items, 1,
                  [totalItems |-> 0, totalPrice |-> 0, totalDiscount |-> 0])
  IN  [totals EXCEPT !.totalDiscount = totals.totalPrice - totals.totalDiscount]

calculateTotals(items) ==
  reduceTotals(items, 1, [totalItems |-> 0, totalPrice |-> 0, totalDiscount |-> 0])

\* state.totalItems = totals.totalItems; ... (the tail of three reducers)
withTotals(state, items) ==
  LET totals == calculateTotals(items)
  IN  [state EXCEPT !.items = items,
                    !.totalItems = totals.totalItems,
                    !.totalPrice = totals.totalPrice,
                    !.totalDiscount = totals.totalDiscount]

\* items.find(item => item.id === id): index of the first match, 0 if none
findIndex(items, id) ==
  IF \E i \in 1..Len(items) : items[i].id = id
  THEN CHOOSE i \in 1..Len(items) :
         items[i].id = id /\ \A j \in 1..(i - 1) : items[j].id # id
  ELSE 0

\* items.filter(item => item.id !== id)
filterOut(items, id) == SelectSeq(items, LAMBDA item : item.id # id)
\* addToCart without the lookup of an existing line
addToCartItems_push(items, payload) ==
  Append(items,
    [id |-> payload.id, title |-> payload.title, price |-> payload.price,
     image |-> payload.image, discount |-> payload.discount, quantity |-> 1])

\* addToCart refreshing the stored snapshot of an existing line
addToCartItems_refresh(items, payload) ==
  LET k == findIndex(items, payload.id)
      line(q) == [id |-> payload.id, title |-> payload.title,
                  price |-> payload.price, image |-> payload.image,
                  discount |-> payload.discount, quantity |-> q]
  IN  IF k # 0
      THEN [items EXCEPT ![k] = line(@.quantity + 1)]
      ELSE Append(items, line(1))

addToCartItems(items, payload) ==
  LET k == findIndex(items, payload.id)
  IN  IF k # 0
      THEN [items EXCEPT ![k].quantity = @ + 1]
      ELSE Append(items,
             [id |-> payload.id, title |-> payload.title,
              price |-> payload.price, image |-> payload.image,
              discount |-> payload.discount, quantity |-> 1])

addToCart(state, payload) ==
  withTotals(state, addToCartItems(state.items, payload))
\* removeFromCart without the recomputation of the totals
removeFromCart_stale(state, id) ==
  [state EXCEPT !.items = filterOut(@, id)]

removeFromCart(state, id) ==
  withTotals(state, filterOut(state.items, id))
\* updateQuantity without the clamp
clampQuantity_none(quantity) == quantity

\* Math.max(0, quantity)
clampQuantity(quantity) == IF quantity > 0 THEN quantity ELSE 0
\* updateQuantity without the removal of a line driven to 0
updateQuantityItems_keep(items, id, quantity) ==
  LET k == findIndex(items, id)
  IN  IF k # 0
      THEN [items EXCEPT ![k].quantity = clampQuantity(quantity)]
      ELSE items

updateQuantityItems(items, id, quantity) ==
  LET k == findIndex(items, id)
  IN  IF k # 0
      THEN LET set == [items EXCEPT ![k].quantity = clampQuantity(quantity)]
           IN  IF set[k].quantity = 0 THEN filterOut(set, id) ELSE set
      ELSE items

\* updateQuantity without the totals calculated anew
updateQuantity_stale(state, id, quantity) ==
  [state EXCEPT !.items = updateQuantityItems(state.items, id, quantity)]

updateQuantity(state, id, quantity) ==
  withTotals(state, updateQuantityItems(state.items, id, quantity))

----------------------------------------------------------------------------
(* Derived values of the cart screen *)

\* totalItems === 0 ? <empty state> : <list and order summary>
showsEmptyState(state) == state.totalItems = 0

\* const finalTotal = totalPrice - totalDiscount
finalTotal(state) == state.totalPrice - state.totalDiscount

\* clearCart going back to the initial state, drawer flag included
clearCart_initial(state) == cartInitialState

clearCart(state) ==
  [state EXCEPT !.items = <<>>, !.totalItems = 0, !.totalPrice = 0,
                !.totalDiscount = 0]

setCartOpen(state, open) == [state EXCEPT !.isOpen = open]

----------------------------------------------------------------------------
(* wishlistSlice *)

wishlistInitialState == [items |-> <<>>]

Alerts == {[type |-> "price", value |-> 900], [type |-> "percentage", value |-> 50]}

\* item.alert is present (it is absent, never null, when no alert is set)
HasAlert(item) == "alert" \in DOMAIN item

\* addToWishlist replacing the entry the id already has
addToWishlist_replace(state, payload) ==
  LET k == findIndex(state.items, payload.id)
  IN  IF k # 0
      THEN [state EXCEPT !.items[k] = payload]
      ELSE [state EXCEPT !.items = Append(@, payload)]

addToWishlist(state, payload) ==
  IF \E i \in 1..Len(state.items) : state.items[i].id = payload.id
  THEN state
  ELSE [state EXCEPT !.items = Append(@, payload)]

removeFromWishlist(state, id) ==
  [state EXCEPT !.items = filterOut(@, id)]

\* setWishlistAlert creating an entry for an id that has none
setWishlistAlert_upsert(state, productId, alert) ==
  LET k == findIndex(state.items, productId)
      item == state.items[k]
  IN  IF k # 0
      THEN [state EXCEPT !.items[k] =
              [f \in DOMAIN item \cup {"alert"} |->
                 IF f = "alert" THEN alert ELSE item[f]]]
      ELSE [state EXCEPT !.items =
              Append(@, [id |-> productId, alert |-> alert])]

\* setWishlistAlert taking the entry out and pushing it with the alert
setWishlistAlert_requeue(state, productId, alert) ==
  LET k == findIndex(state.items, productId)
      item == state.items[k]
  IN  IF k # 0
      THEN [state EXCEPT !.items =
              Append(filterOut(@, productId),
                     [f \in DOMAIN item \cup {"alert"} |->
                        IF f = "alert" THEN alert ELSE item[f]])]
      ELSE state

\* item.alert = alert: the field is created or replaced
setWishlistAlert(state, productId, alert) ==
  LET k == findIndex(state.items, productId)
      item == state.items[k]
  IN  IF k # 0
      THEN [state EXCEPT !.items[k] =
              [f \in DOMAIN item \cup {"alert"} |->
                 IF f = "alert" THEN alert ELSE item[f]]]
      ELSE state

\* clearWishlistAlert setting the value of the alert to 0 and keeping it
clearWishlistAlert_zero(state, id) ==
  LET k == findIndex(state.items, id)
      item == state.items[k]
  IN  IF k # 0 /\ HasAlert(item)
      THEN [state EXCEPT !.items[k].alert.value = 0]
      ELSE state

\* delete item.alert: the field is removed
clearWishlistAlert(state, id) ==
  LET k == findIndex(state.items, id)
      item == state.items[k]
  IN  IF k # 0
      THEN [state EXCEPT !.items[k] =
              [f \in DOMAIN item \ {"alert"} |-> item[f]]]
      ELSE state

----------------------------------------------------------------------------
(* Derived views of the wishlist *)

\* the elements of an array
elements(arr) == {arr[i] : i \in 1..Len(arr)}

\* Array.prototype.sort with a consistent comparator: a stable sort.  An
\* element comes after the elements that compare below it and after the
\* equal ones that precede it in the array.  The comparator is given as
\* its values on the pairs of elements.
sort(arr, compareFn) ==
  LET n == Len(arr)
      rank(i) ==
        1 + Cardinality({j \in 1..n :
              \/ compareFn[arr[j], arr[i]] < 0
              \/ compareFn[arr[j], arr[i]] = 0 /\ j < i})
  IN  [k \in 1..n |-> arr[CHOOSE i \in 1..n : rank(i) = k]]

\* isAlertFulfilled with strict comparisons
isAlertFulfilled_strict(item) ==
  IF ~HasAlert(item) THEN FALSE
  ELSE IF item.alert.type = "price"
  THEN item.discount.discountedPrice < item.alert.value
  ELSE item.discount.percentage > item.alert.value

isAlertFulfilled(item) ==
  IF ~HasAlert(item) THEN FALSE
  ELSE IF item.alert.type = "price"
  THEN item.discount.discountedPrice <= item.alert.value
  ELSE item.discount.percentage >= item.alert.value

\* the comparator of sortedItems with its two results exchanged
compareFulfilled_flipped(a, b) ==
  LET aFulfilled == isAlertFulfilled(a)
      bFulfilled == isAlertFulfilled(b)
  IN  IF aFulfilled /\ ~bFulfilled THEN 1
      ELSE IF ~aFulfilled /\ bFulfilled THEN 0 - 1
      ELSE 0

compareFulfilled(a, b) ==
  LET aFulfilled == isAlertFulfilled(a)
      bFulfilled == isAlertFulfilled(b)
  IN  IF aFulfilled /\ ~bFulfilled THEN 0 - 1
      ELSE IF ~aFulfilled /\ bFulfilled THEN 1
      ELSE 0

\* result = items: the array of the store under another name
copyOf_same(items) == [alias |-> TRUE, value |-> items]

\* [...items]: a new array with the elements of items
copyOf(items) == [alias |-> FALSE, value |-> items]

\* [...items].sort((a, b) => ...)
sortedItems(items) ==
  sort(items, [a \in elements(items), b \in elements(items) |->
                compareFulfilled(a, b)])

\* what the array items of the store holds after sortedItems: sort works
\* in place, on the array it is called on
itemsAfterSortedItems(items) ==
  IF copyOf(items).alias THEN sortedItems(items) ELSE items

----------------------------------------------------------------------------
(* Derived view of the catalog: the product grid *)

toLowerChar(c) ==
  CASE c = "A" -> "a"
    [] c = "B" -> "b"
    [] c = "C" -> "c"
    [] OTHER -> c

\* String.prototype.toLowerCase
toLowerCase(str) == [i \in 1..Len(str) |-> toLowerChar(str[i])]

\* str starts with searchString
RECURSIVE startsWith(_, _)
startsWith(str, searchString) ==
  IF searchString = <<>> THEN TRUE
  ELSE IF str = <<>> THEN FALSE
  ELSE Head(str) = Head(searchString)
         /\ startsWith(Tail(str), Tail(searchString))

\* String.prototype.includes
RECURSIVE includes(_, _)
includes(str, searchString) ==
  IF startsWith(str, searchString) THEN TRUE
  ELSE IF str = <<>> THEN FALSE
  ELSE includes(Tail(str), searchString)

\* the search matching the title alone
searchFilter_title(result, searchQuery) ==
  IF searchQuery = <<>> THEN result
  ELSE LET searchLower == toLowerCase(searchQuery)
       IN  SelectSeq(result,
                     LAMBDA item : includes(toLowerCase(item.title), searchLower))

\* if (filters.searchQuery) result = result.filter(...)
searchFilter(result, searchQuery) ==
  IF searchQuery = <<>> THEN result
  ELSE LET searchLower == toLowerCase(searchQuery)
       IN  SelectSeq(result,
                     LAMBDA item :
                       \/ includes(toLowerCase(item.title), searchLower)
                       \/ includes(toLowerCase(item.description), searchLower)
                       \/ includes(toLowerCase(item.category), searchLower))

\* Array.prototype.includes
arrayIncludes(arr, x) == \E i \in 1..Len(arr) : arr[i] = x

\* if (filters.category.length > 0) result = result.filter(...)
categoryFilter(result, category) ==
  IF Len(category) > 0
  THEN SelectSeq(result, LAMBDA item : arrayIncludes(category, item.category))
  ELSE result

\* the switch with the comparator of lowestPrice under highestPrice too
sortItems_ascending(result, sortBy) ==
  CASE sortBy = "biggestDiscount" ->
         sort(result, [a \in elements(result), b \in elements(result) |->
                         b.discount.percentage - a.discount.percentage])
    [] sortBy = "biggestSaving" ->
         sort(result, [a \in elements(result), b \in elements(result) |->
                         b.discount.savings - a.discount.savings])
    [] sortBy = "lowestPrice" ->
         sort(result, [a \in elements(result), b \in elements(result) |->
                         a.discount.discountedPrice - b.discount.discountedPrice])
    [] sortBy = "highestPrice" ->
         sort(result, [a \in elements(result), b \in elements(result) |->
                         a.discount.discountedPrice - b.discount.discountedPrice])

\* switch (filters.sortBy) { case ...: result.sort(...) }
sortItems(result, sortBy) ==
  CASE sortBy = "biggestDiscount" ->
         sort(result, [a \in elements(result), b \in elements(result) |->
                         b.discount.percentage - a.discount.percentage])
    [] sortBy = "biggestSaving" ->
         sort(result, [a \in elements(result), b \in elements(result) |->
                         b.discount.savings - a.discount.savings])
    [] sortBy = "lowestPrice" ->
         sort(result, [a \in elements(result), b \in elements(result) |->
                         a.discount.discountedPrice - b.discount.discountedPrice])
    [] sortBy = "highestPrice" ->
         sort(result, [a \in elements(result), b \in elements(result) |->
                         b.discount.discountedPrice - a.discount.discountedPrice])

\* the category filter taking the catalog instead of the search result
filteredAndSortedItems_restart(items, filters) ==
  sortItems(categoryFilter(items, filters.category), filters.sortBy)

filteredAndSortedItems(items, filters) ==
  sortItems(categoryFilter(searchFilter(items, filters.searchQuery),
                           filters.category),
            filters.sortBy)

\* the array that result names when the switch sorts it: filter returns a
\* new array, and without a filter result still is the array it started as
sortedArray(items, filters) ==
  IF filters.searchQuery # <<>> \/ Len(filters.category) > 0
  THEN [alias |-> FALSE,
        value |-> categoryFilter(searchFilter(items, filters.searchQuery),
                                 filters.category)]
  ELSE copyOf(items)

\* what the array items of the store holds after filteredAndSortedItems
itemsAfterFilteredAndSortedItems(items, filters) ==
  IF sortedArray(items, filters).alias
  THEN sortItems(items, filters.sortBy)
  ELSE items

----------------------------------------------------------------------------
(* Derived view of the catalog: the categories offered as filters *)

\* new Set(values): the values in the order of their first insertion
RECURSIVE newSet(_)
newSet(values) ==
  IF values = <<>> THEN <<>>
  ELSE LET front == newSet(SubSeq(values, 1, Len(values) - 1))
           value == values[Len(values)]
       IN  IF arrayIncludes(front, value) THEN front ELSE Append(front, value)

\* the categories of the items, one for each item
categories_all(items) == [i \in 1..Len(items) |-> items[i].category]

\* Array.from(new Set(items.map((p) => p.category)))
categories(items) == newSet([i \in 1..Len(items) |-> items[i].category])

----------------------------------------------------------------------------
(* productsSlice: state and reducers *)

productsInitialState ==
  [items |-> <<>>, status |-> "idle", error |-> None,
   filters |-> [category |-> <<>>, sortBy |-> "biggestDiscount",
                searchQuery |-> <<>>]]

GenericFailure == "Failed to fetch products"

\* messages of the errors the thunk's payload creator can throw: fetch()
\* rejecting, the explicit throw on !response.ok, and a thrown value that
\* carries no message
ThunkErrors == {Some("Network request failed"), Some(GenericFailure), None}

\* the lists the upstream source answers with: empty, one product, two
\* products, and the two products reordered with the first one repriced
Responses ==
  {<<>>,
   <<UpstreamRecord(1, 1)>>,
   <<UpstreamRecord(1, 1), UpstreamRecord(2, 1)>>,
   <<UpstreamRecord(2, 1), UpstreamRecord(1, 2)>>}

\* the answers the whole-store specification uses, and the ids they carry
StoreResponses == {<<UpstreamRecord(1, 1)>>}

StoreIds == {1}

\* one draw of Math.random per product of a list of length n
DrawsFor(n) == [1..n -> Draws]

\* data.map(product => ({...product, category, discount})), one draw each
mapProducts(data, draws) == [i \in 1..Len(data) |-> Ingest(data[i], draws[i])]

\* Array.prototype.indexOf: the first position of x in arr, 0 when absent
RECURSIVE indexOf(_, _)
indexOf(arr, x) ==
  IF arr = <<>> THEN 0
  ELSE IF Head(arr) = x THEN 1
  ELSE LET rest == indexOf(Tail(arr), x)
       IN  IF rest = 0 THEN 0 ELSE rest + 1

\* arr.splice(index, 1)
splice1(arr, index) ==
  [i \in 1..(Len(arr) - 1) |-> IF i < index THEN arr[i] ELSE arr[i + 1]]

\* setCategory pushing the category whether it is there or not
setCategory_push(state, category) ==
  [state EXCEPT !.filters.category = Append(@, category)]

\* the toggle of a category
setCategory(state, category) ==
  LET index == indexOf(state.filters.category, category)
  IN  IF index = 0
      THEN [state EXCEPT !.filters.category = Append(@, category)]
      ELSE [state EXCEPT !.filters.category = splice1(@, index)]

setSortBy(state, sortBy) == [state EXCEPT !.filters.sortBy = sortBy]

\* setSearchQuery ignoring the empty string
setSearchQuery_nonempty(state, searchQuery) ==
  IF searchQuery = <<>> THEN state
  ELSE [state EXCEPT !.filters.searchQuery = searchQuery]

setSearchQuery(state, searchQuery) ==
  [state EXCEPT !.filters.searchQuery = searchQuery]

\* regenerateDiscounts putting the default filters back as well
regenerateDiscounts_reset(state, draws) ==
  [state EXCEPT !.filters = [category |-> <<>>, sortBy |-> "biggestDiscount",
                             searchQuery |-> <<>>]]

\* items.map(product => ({...product, discount: generateDiscount(price)}))
regenerate(items, draws) ==
  [i \in 1..Len(items) |->
     [items[i] EXCEPT !.discount = generateDiscount(items[i].price, draws[i])]]

regenerateDiscounts(state, draws) ==
  [state EXCEPT !.items = regenerate(state.items, draws)]
\* fetchProducts.pending leaving the status as it is
fetchProductsPending_keep(state) == state

fetchProductsPending(state) == [state EXCEPT !.status = "loading"]

fetchProductsFulfilled(state, payload) ==
  [state EXCEPT !.status = "succeeded", !.items = payload]
\* fetchProducts.rejected dropping the loaded items
fetchProductsRejected_reset(state, message) ==
  [state EXCEPT !.status = "failed", !.items = <<>>,
                !.error = Some(Coalesce(message, GenericFailure))]

fetchProductsRejected(state, message) ==
  [state EXCEPT !.status = "failed",
                !.error = Some(Coalesce(message, GenericFailure))]

----------------------------------------------------------------------------
(* Slice reducers.  createSlice names an action "<slice name>/<reducer>"    *)
(* and returns a reducer that applies the matching case reducer and hands   *)
(* back the state untouched for every other action type.                    *)

CartTypes ==
  {"cart/addToCart", "cart/removeFromCart", "cart/updateQuantity",
   "cart/clearCart", "cart/setCartOpen"}

WishlistTypes ==
  {"wishlist/addToWishlist", "wishlist/removeFromWishlist",
   "wishlist/setWishlistAlert", "wishlist/clearWishlistAlert"}

ProductsTypes ==
  {"products/setCategory", "products/setSortBy", "products/setSearchQuery",
   "products/regenerateDiscounts", "products/fetchProducts/pending",
   "products/fetchProducts/fulfilled", "products/fetchProducts/rejected"}

cartCaseReducers(state, action) ==
  CASE action.type = "cart/addToCart" -> addToCart(state, action.payload)
    [] action.type = "cart/removeFromCart" ->
         removeFromCart(state, action.payload)
    [] action.type = "cart/updateQuantity" ->
         updateQuantity(state, action.payload.id, action.payload.quantity)
    [] action.type = "cart/clearCart" -> clearCart(state)
    [] action.type = "cart/setCartOpen" -> setCartOpen(state, action.payload)
\* a cart slice that follows the catalog: on fetchProducts.fulfilled it
\* refreshes the discount of every line whose id is in the new list
cartReducer_linked(state, action) ==
  IF action.type \in CartTypes THEN cartCaseReducers(state, action)
  ELSE IF action.type = "products/fetchProducts/fulfilled"
  THEN withTotals(state,
         [i \in 1..Len(state.items) |->
            LET k == findIndex(action.payload, state.items[i].id)
            IN  IF k # 0
                THEN [state.items[i] EXCEPT
                        !.discount = action.payload[k].discount]
                ELSE state.items[i]])
  ELSE state

cartReducer(state, action) ==
  IF action.type \in CartTypes THEN cartCaseReducers(state, action) ELSE state

wishlistReducer(state, action) ==
  CASE action.type = "wishlist/addToWishlist" ->
         addToWishlist(state, action.payload)
    [] action.type = "wishlist/removeFromWishlist" ->
         removeFromWishlist(state, action.payload)
    [] action.type = "wishlist/setWishlistAlert" ->
         setWishlistAlert(state, action.payload.productId, action.payload.alert)
    [] action.type = "wishlist/clearWishlistAlert" ->
         clearWishlistAlert(state, action.payload)
    [] OTHER -> state

productsReducer(state, action) ==
  CASE action.type = "products/setCategory" ->
         setCategory(state, action.payload)
    [] action.type = "products/setSortBy" ->
         setSortBy(state, action.payload)
    [] action.type = "products/setSearchQuery" ->
         setSearchQuery(state, action.payload)
    [] action.type = "products/regenerateDiscounts" ->
         regenerateDiscounts(state, action.draws)
    [] action.type = "products/fetchProducts/pending" ->
         fetchProductsPending(state)
    [] action.type = "products/fetchProducts/fulfilled" ->
         fetchProductsFulfilled(state, action.payload)
    [] action.type = "products/fetchProducts/rejected" ->
         fetchProductsRejected(state, action.error.message)
    [] OTHER -> state

----------------------------------------------------------------------------
(* The store: configureStore({reducer: {products, cart, wishlist}}) hands   *)
(* every dispatched action to the three slice reducers, each on its own     *)
(* slice of the state.                                                      *)

NoAction == [action |-> [type |-> "@@INIT"], found |-> FALSE]

NoCompletion == [kind |-> "none"]

NoView == [of |-> "none"]

\* useState('') and no call of handleSearch yet
searchBarInitial == [inputValue |-> <<>>, timer |-> None]

Init ==
  /\ products = productsInitialState
  /\ cart = cartInitialState
  /\ wishlist = wishlistInitialState
  /\ inflight = {}
  /\ started = 0
  /\ last = NoAction
  /\ lastDone = NoCompletion
  /\ lastFulfilled = None
  /\ overlapped = FALSE
  /\ settled = FALSE
  /\ view = NoView
  /\ searchBar = searchBarInitial
  /\ cleared = FALSE

\* the three slice reducers on one action
\* found: the id the action names has a line (cart) or an entry (wishlist)
Reduce(action, found) ==
  /\ products' = productsReducer(products, action)
  /\ cart' = cartReducer(cart, action)
  /\ wishlist' = wishlistReducer(wishlist, action)
  /\ last' = [action |-> action, found |-> found]
  /\ view' = view

\* useEffect(() => setInputValue(reduxSearchQuery), [reduxSearchQuery]):
\* the input takes the search text of the store whenever that has changed
SyncedInput ==
  IF products'.filters.searchQuery # products.filters.searchQuery
  THEN products'.filters.searchQuery
  ELSE searchBar.inputValue

\* a dispatch from anywhere but the search bar
Dispatch(action, found) ==
  /\ Reduce(action, found)
  /\ searchBar' = [searchBar EXCEPT !.inputValue = SyncedInput]
  /\ cleared' = cleared

HasLine(id) == findIndex(cart.items, id) # 0

HasEntry(id) == findIndex(wishlist.items, id) # 0

Quantity(id) ==
  IF HasLine(id) THEN cart.items[findIndex(cart.items, id)].quantity ELSE 0

(* Cart actions *)

AddToCart(payload) ==
  /\ Quantity(payload.id) < MaxQty
  /\ Dispatch([type |-> "cart/addToCart", payload |-> payload],
              HasLine(payload.id))
  /\ UNCHANGED <<inflight, started, history>>

RemoveFromCart(id) ==
  /\ Dispatch([type |-> "cart/removeFromCart", payload |-> id], HasLine(id))
  /\ UNCHANGED <<inflight, started, history>>

UpdateQuantity(id, quantity) ==
  /\ Dispatch([type |-> "cart/updateQuantity",
               payload |-> [id |-> id, quantity |-> quantity]], HasLine(id))
  /\ UNCHANGED <<inflight, started, history>>

ClearCart ==
  /\ Dispatch([type |-> "cart/clearCart"], FALSE)
  /\ UNCHANGED <<inflight, started, history>>

SetCartOpen(open) ==
  /\ Dispatch([type |-> "cart/setCartOpen", payload |-> open], FALSE)
  /\ UNCHANGED <<inflight, started, history>>

Quantities == (0 - NegQty)..MaxQty

NextCart ==
  \/ \E payload \in Payloads : AddToCart(payload)
  \/ \E id \in Ids : RemoveFromCart(id)
  \/ \E id \in Ids, quantity \in Quantities : UpdateQuantity(id, quantity)
  \/ ClearCart

SpecCart == Init /\ [][NextCart]_vars

(* The cart of two products with its drawer *)

NextDrawer ==
  \/ \E payload \in {Snapshot(Ingest(UpstreamRecord(id, 1), 12)) : id \in {1, 2}} :
       AddToCart(payload)
  \/ \E id \in {1, 2} : RemoveFromCart(id)
  \/ \E id \in {1, 2}, quantity \in {0, 2} : UpdateQuantity(id, quantity)
  \/ ClearCart
  \/ \E open \in BOOLEAN : SetCartOpen(open)

SpecDrawer == Init /\ [][NextDrawer]_vars

(* Wishlist actions *)

AddToWishlist(payload) ==
  /\ Dispatch([type |-> "wishlist/addToWishlist", payload |-> payload],
              HasEntry(payload.id))
  /\ UNCHANGED <<inflight, started, history>>

RemoveFromWishlist(id) ==
  /\ Dispatch([type |-> "wishlist/removeFromWishlist", payload |-> id],
              HasEntry(id))
  /\ UNCHANGED <<inflight, started, history>>

SetWishlistAlert(productId, alert) ==
  /\ Dispatch([type |-> "wishlist/setWishlistAlert",
               payload |-> [productId |-> productId, alert |-> alert]],
              HasEntry(productId))
  /\ UNCHANGED <<inflight, started, history>>

ClearWishlistAlert(id) ==
  /\ Dispatch([type |-> "wishlist/clearWishlistAlert", payload |-> id],
              HasEntry(id))
  /\ UNCHANGED <<inflight, started, history>>

NextWishlist ==
  \/ \E payload \in Payloads : AddToWishlist(payload)
  \/ \E id \in Ids : RemoveFromWishlist(id)
  \/ \E id \in Ids, alert \in Alerts : SetWishlistAlert(id, alert)
  \/ \E id \in Ids : ClearWishlistAlert(id)

SpecWishlist == Init /\ [][NextWishlist]_vars

(* The cart and the wishlist together, over two products *)

ListIds == {1, 2}

ListPayloads == {Snapshot(Ingest(UpstreamRecord(id, 1), 12)) : id \in ListIds}

NextLists ==
  \/ \E payload \in ListPayloads : AddToCart(payload)
  \/ \E id \in ListIds : RemoveFromCart(id)
  \/ \E id \in ListIds, quantity \in {0 - 1, 0, 2} :
       UpdateQuantity(id, quantity)
  \/ \E payload \in ListPayloads : AddToWishlist(payload)
  \/ \E id \in ListIds : RemoveFromWishlist(id)
  \/ \E id \in ListIds, alert \in Alerts : SetWishlistAlert(id, alert)
  \/ \E id \in ListIds : ClearWishlistAlert(id)

SpecLists == Init /\ [][NextLists]_vars

(* The cart and the wishlist over three products, so that a line or an    *)
(* entry can go from between two others.  The quantity changes are those  *)
(* of product 1 and the alerts those of product 3, wherever in the lists   *)
(* the two are.                                                            *)

OrderIds == {1, 2, 3}

OrderPayloads == {Snapshot(Ingest(UpstreamRecord(id, 1), 12)) : id \in OrderIds}

NextOrder ==
  \/ \E payload \in OrderPayloads :
       /\ HasLine(payload.id) => payload.id = 1 /\ Quantity(1) < 2
       /\ AddToCart(payload)
  \/ \E id \in OrderIds : RemoveFromCart(id)
  \/ \E quantity \in {0, 1} : UpdateQuantity(1, quantity)
  \/ \E payload \in OrderPayloads : AddToWishlist(payload)
  \/ \E id \in OrderIds : RemoveFromWishlist(id)
  \/ SetWishlistAlert(3, [type |-> "price", value |-> 900])
  \/ ClearWishlistAlert(3)

SpecOrder == Init /\ [][NextOrder]_vars

(* The wishlist views.  WishlistItem evaluates isAlertFulfilled on the     *)
(* entry it shows; the wishlist screen computes sortedItems from the        *)
(* stored entries.                                                          *)

WithAlert(item, alert) ==
  [f \in DOMAIN item \cup {"alert"} |-> IF f = "alert" THEN alert ELSE item[f]]

\* snapshots a wishlist entry can hold
EntrySnapshots(ids) ==
  {Snapshot(Ingest(UpstreamRecord(id, v), d)) :
     id \in ids, v \in 1..2, d \in Draws}

\* alerts around the discounted prices and the percentages of the entries
AlertInputs ==
  {[type |-> "price", value |-> v] : v \in {500, 898, 899, 900}}
    \cup {[type |-> "percentage", value |-> v] : v \in {9, 10, 11, 50, 51}}

AlertEntries ==
  EntrySnapshots({1, 2})
    \cup {WithAlert(e, a) : e \in EntrySnapshots({1, 2}), a \in AlertInputs}

InitAlert ==
  /\ products = productsInitialState
  /\ cart = cartInitialState
  /\ wishlist \in {[items |-> <<e>>] : e \in AlertEntries}
  /\ inflight = {}
  /\ started = 0
  /\ last = NoAction
  /\ lastDone = NoCompletion
  /\ lastFulfilled = None
  /\ overlapped = FALSE
  /\ settled = FALSE
  /\ view = NoView
  /\ searchBar = searchBarInitial
  /\ cleared = FALSE

stored ==
  <<products, cart, wishlist, inflight, started, last, history, searchBar,
    cleared>>

RenderWishlistItem(i) ==
  /\ view' = [of |-> "isAlertFulfilled", item |-> wishlist.items[i],
              result |-> isAlertFulfilled(wishlist.items[i])]
  /\ UNCHANGED stored

NextAlert == \E i \in 1..Len(wishlist.items) : RenderWishlistItem(i)

SpecAlert == InitAlert /\ [][NextAlert]_vars

\* lists of entries with distinct ids, at most n of them
RECURSIVE DistinctLists(_, _)
DistinctLists(S, n) ==
  IF n = 0 THEN {<<>>}
  ELSE LET shorter == DistinctLists(S, n - 1)
           longer == {Append(l, x) : l \in shorter, x \in S}
       IN  shorter \cup
             {l \in longer : \A i, j \in 1..Len(l) : l[i].id = l[j].id => i = j}

ShownEntries ==
  LET snapshots == {Snapshot(Ingest(UpstreamRecord(id, 1), d)) :
                      id \in 1..MaxShown, d \in Draws}
  IN  snapshots \cup {WithAlert(e, a) : e \in snapshots, a \in Alerts}

InitWishlistView ==
  /\ products = productsInitialState
  /\ cart = cartInitialState
  /\ wishlist \in {[items |-> l] : l \in DistinctLists(ShownEntries, MaxShown)}
  /\ inflight = {}
  /\ started = 0
  /\ last = NoAction
  /\ lastDone = NoCompletion
  /\ lastFulfilled = None
  /\ overlapped = FALSE
  /\ settled = FALSE
  /\ view = NoView
  /\ searchBar = searchBarInitial
  /\ cleared = FALSE

RenderWishlist ==
  /\ view' = [of |-> "sortedItems", items |-> wishlist.items,
              result |-> sortedItems(wishlist.items)]
  /\ wishlist' = [wishlist EXCEPT !.items = itemsAfterSortedItems(@)]
  /\ UNCHANGED <<products, cart, inflight, started, last, history, searchBar,
                 cleared>>

NextWishlistView == RenderWishlist

SpecWishlistView == InitWishlistView /\ [][NextWishlistView]_vars

(* Catalog actions.  createAsyncThunk dispatches fetchProducts.pending when  *)
(* the thunk is dispatched and, once the payload creator settles, exactly   *)
(* one of fetchProducts.fulfilled (it returned) and fetchProducts.rejected  *)
(* (it threw); request ids are handed out in dispatch order here.           *)

FetchProducts ==
  /\ started < MaxFetches
  /\ started' = started + 1
  /\ inflight' = inflight \cup {started + 1}
  /\ Dispatch([type |-> "products/fetchProducts/pending"], FALSE)
  /\ overlapped' = (overlapped \/ inflight # {})
  /\ settled' = FALSE
  /\ UNCHANGED <<lastDone, lastFulfilled>>

Fulfilled(requestId, payload) ==
  /\ requestId \in inflight
  /\ inflight' = inflight \ {requestId}
  /\ Dispatch([type |-> "products/fetchProducts/fulfilled",
               payload |-> payload], FALSE)
  /\ lastDone' = [kind |-> "fulfilled", requestId |-> requestId]
  /\ lastFulfilled' = Some(payload)
  /\ settled' = TRUE
  /\ UNCHANGED <<started, overlapped>>

Rejected(requestId, message) ==
  /\ requestId \in inflight
  /\ inflight' = inflight \ {requestId}
  /\ Dispatch([type |-> "products/fetchProducts/rejected",
               error |-> [message |-> message]], FALSE)
  /\ lastDone' = [kind |-> "rejected", requestId |-> requestId,
                  message |-> message]
  /\ settled' = TRUE
  /\ UNCHANGED <<started, overlapped, lastFulfilled>>

RegenerateDiscounts(draws) ==
  /\ Dispatch([type |-> "products/regenerateDiscounts", draws |-> draws], FALSE)
  /\ UNCHANGED <<inflight, started, history>>

\* what the payload creator returns for the answer data
FetchedPayloads(responses) ==
  UNION {{mapProducts(data, draws) : draws \in DrawsFor(Len(data))} :
           data \in responses}

NextFetch ==
  \/ FetchProducts
  \/ \E requestId \in inflight, payload \in FetchedPayloads(Responses) :
       Fulfilled(requestId, payload)
  \/ \E requestId \in inflight, message \in ThunkErrors :
       Rejected(requestId, message)
  \/ \E draws \in DrawsFor(Len(products.items)) : RegenerateDiscounts(draws)

SpecFetch == Init /\ [][NextFetch]_vars

(* The catalog with its filter criteria.  The category buttons show the    *)
(* categories of the loaded products; the sort menu offers the four        *)
(* orders; the search bar hands over the text typed.                       *)

SetCategory(category) ==
  /\ Dispatch([type |-> "products/setCategory", payload |-> category], FALSE)
  /\ UNCHANGED <<inflight, started, history>>

SetSortBy(sortBy) ==
  /\ Dispatch([type |-> "products/setSortBy", payload |-> sortBy], FALSE)
  /\ UNCHANGED <<inflight, started, history>>

SetSearchQuery(searchQuery) ==
  /\ Dispatch([type |-> "products/setSearchQuery", payload |-> searchQuery],
              FALSE)
  /\ UNCHANGED <<inflight, started, history>>

SortOrders == {"biggestDiscount", "biggestSaving", "lowestPrice", "highestPrice"}

CatalogResponses == {<<UpstreamRecord(2, 1), UpstreamRecord(1, 1)>>}

CatalogCategories == {capitalizeWords(UpstreamCategory(id)) : id \in {1, 2}}

CatalogQueries == {<<>>, <<"a">>}

NextCatalog ==
  \/ FetchProducts
  \/ \E requestId \in inflight, payload \in FetchedPayloads(CatalogResponses) :
       Fulfilled(requestId, payload)
  \/ \E requestId \in inflight : Rejected(requestId, None)
  \/ \E draws \in DrawsFor(Len(products.items)) : RegenerateDiscounts(draws)
  \/ \E category \in CatalogCategories : SetCategory(category)
  \/ \E sortBy \in SortOrders : SetSortBy(sortBy)
  \/ \E searchQuery \in CatalogQueries : SetSearchQuery(searchQuery)

SpecCatalog == Init /\ [][NextCatalog]_vars

(* The product grid.  ProductGrid computes filteredAndSortedItems from the  *)
(* items and the filters of the catalog.  The products differ in the field *)
(* a search text is found in, two of them have the same price, and a       *)
(* cheaper one can have the bigger percentage and the smaller saving.      *)

GridRecord(id) ==
  CASE id = 1 -> [id |-> 1, title |-> <<"A", "b">>, price |-> 300,
                  description |-> <<"c">>, category |-> <<"a", " ", "c">>,
                  image |-> 1]
    [] id = 2 -> [id |-> 2, title |-> <<"c">>, price |-> 2000,
                  description |-> <<"a", "B">>, category |-> <<"b">>,
                  image |-> 2]
    [] OTHER  -> [id |-> id, title |-> <<"b">>, price |-> 300,
                  description |-> <<"b">>, category |-> <<"c", " ", "a">>,
                  image |-> id]

GridProducts == {Ingest(GridRecord(id), d) : id \in 1..MaxShown, d \in Draws}

GridQueries ==
  {<<>>, <<"a", "b">>, <<"A", " ", "C">>, <<"B", "c">>, <<"b">>}

GridCategories ==
  {<<>>, <<<<"B">>>>, <<<<"A", " ", "C">>>>,
   <<<<"B">>, <<"A", " ", "C">>>>, <<<<"C", " ", "A">>, <<"B">>>>}

GridFilters ==
  {[category |-> c, sortBy |-> o, searchQuery |-> q] :
     c \in GridCategories, o \in SortOrders, q \in GridQueries}

InitGrid ==
  /\ products \in {[items |-> l, status |-> "succeeded", error |-> None,
                     filters |-> f] :
                      l \in DistinctLists(GridProducts, MaxShown),
                      f \in GridFilters}
  /\ cart = cartInitialState
  /\ wishlist = wishlistInitialState
  /\ inflight = {}
  /\ started = 1
  /\ last = NoAction
  /\ lastDone = [kind |-> "fulfilled", requestId |-> 1]
  /\ lastFulfilled = Some(products.items)
  /\ overlapped = FALSE
  /\ settled = TRUE
  /\ view = NoView
  /\ searchBar = searchBarInitial
  /\ cleared = FALSE

RenderGrid ==
  /\ view' = [of |-> "filteredAndSortedItems", items |-> products.items,
              filters |-> products.filters,
              result |-> filteredAndSortedItems(products.items,
                                                products.filters)]
  /\ products' = [products EXCEPT
                    !.items = itemsAfterFilteredAndSortedItems(@, products.filters)]
  /\ UNCHANGED <<cart, wishlist, inflight, started, last, history, searchBar,
                 cleared>>

NextGrid == RenderGrid

SpecGrid == InitGrid /\ [][NextGrid]_vars

(* Both views, each computed from a catalog or a wishlist of its own       *)

InitViews == InitGrid \/ InitWishlistView

NextViews == RenderGrid \/ RenderWishlist

SpecViews == InitViews /\ [][NextViews]_vars

(* The category buttons.  BottomControls computes categories from the     *)
(* items of the catalog; several products can have the same category.     *)

CategoryProducts ==
  {Ingest([UpstreamRecord(id, 1) EXCEPT !.category = c], 12) :
     id \in 1..MaxShown, c \in {<<"a", " ", "c">>, <<"b">>, <<"c">>}}

InitCategories ==
  /\ products \in {[items |-> l, status |-> "succeeded", error |-> None,
                     filters |-> productsInitialState.filters] :
                      l \in DistinctLists(CategoryProducts, MaxShown)}
  /\ cart = cartInitialState
  /\ wishlist = wishlistInitialState
  /\ inflight = {}
  /\ started = 1
  /\ last = NoAction
  /\ lastDone = [kind |-> "fulfilled", requestId |-> 1]
  /\ lastFulfilled = Some(products.items)
  /\ overlapped = FALSE
  /\ settled = TRUE
  /\ view = NoView
  /\ searchBar = searchBarInitial
  /\ cleared = FALSE

RenderCategories ==
  /\ view' = [of |-> "categories", items |-> products.items,
              result |-> categories(products.items)]
  /\ UNCHANGED stored

NextCategories == RenderCategories

SpecCategories == InitCategories /\ [][NextCategories]_vars

(* The search bar.  Typing sets the input at once and hands the text to   *)
(* the debounced handleSearch; the clear button empties the input and the  *)
(* search text of the store.                                               *)

\* useDebouncedCallback(callback, 300): a call replaces the call that is
\* waiting, and the callback runs with the text of the last call once 300
\* ms have passed without another call
debounced(timer, text) == Some(text)

SearchTexts == {<<>>, <<"a">>, <<"a", "b">>, <<"b">>}

\* handleChangeText
ChangeText(text) ==
  /\ searchBar' = [inputValue |-> text,
                   timer |-> debounced(searchBar.timer, text)]
  /\ cleared' = FALSE
  /\ UNCHANGED <<products, cart, wishlist, inflight, started, last, history,
                 view>>

\* the timer of handleSearch runs out
FireSearch ==
  /\ searchBar.timer # None
  /\ Reduce([type |-> "products/setSearchQuery",
             payload |-> searchBar.timer[1]], FALSE)
  /\ searchBar' = [inputValue |-> SyncedInput, timer |-> None]
  /\ UNCHANGED <<inflight, started, history, cleared>>

\* handleClear; the button is there while the input has text
ClearSearch ==
  /\ searchBar.inputValue # <<>>
  /\ Reduce([type |-> "products/setSearchQuery", payload |-> <<>>], FALSE)
  /\ searchBar' = [searchBar EXCEPT !.inputValue = <<>>]
  /\ cleared' = TRUE
  /\ UNCHANGED <<inflight, started, history>>

\* the search bar is on the screen of the product grid, whose catalog is
\* fetched at launch and on every pull to refresh
NextSearch ==
  \/ \E text \in SearchTexts : ChangeText(text)
  \/ FireSearch
  \/ ClearSearch
  \/ FetchProducts
  \/ \E requestId \in inflight, payload \in FetchedPayloads(StoreResponses) :
       Fulfilled(requestId, payload)
  \/ \E requestId \in inflight : Rejected(requestId, None)

SpecSearch == Init /\ [][NextSearch]_vars

(* The catalog of one product, at prices whose discounted price falls     *)
(* on, just below and just above half a cent, with every value            *)
(* Math.floor(Math.random() * 41 + 10) can take.                           *)

RawDraws == 10..50

Prices == {0, 1, 5, 999, 1050}

PricedRecord(price) == [UpstreamRecord(1, 1) EXCEPT !.price = price]

\* one fetch at a time: the discounts do not depend on how fetches overlap
NextDiscount ==
  \/ inflight = {} /\ FetchProducts
  \/ \E requestId \in inflight, price \in Prices, d \in RawDraws :
       Fulfilled(requestId, mapProducts(<<PricedRecord(price)>>, <<d>>))
  \/ \E draws \in [1..Len(products.items) -> RawDraws] :
       RegenerateDiscounts(draws)

SpecDiscount == Init /\ [][NextDiscount]_vars

(* The whole store.  The views build the payload of addToCart and           *)
(* addToWishlist from a product of the catalog as it is at that moment.     *)

CatalogPayloads == {Snapshot(products.items[i]) : i \in 1..Len(products.items)}

Next ==
  \/ FetchProducts
  \/ \E requestId \in inflight, payload \in FetchedPayloads(StoreResponses) :
       Fulfilled(requestId, payload)
  \/ \E requestId \in inflight : Rejected(requestId, None)
  \/ \E draws \in DrawsFor(Len(products.items)) : RegenerateDiscounts(draws)
  \/ \E payload \in CatalogPayloads : AddToCart(payload)
  \/ \E id \in StoreIds : RemoveFromCart(id)
  \/ \E id \in StoreIds, quantity \in {0, 2} : UpdateQuantity(id, quantity)
  \/ ClearCart
  \/ \E open \in BOOLEAN : SetCartOpen(open)
  \/ \E payload \in CatalogPayloads : AddToWishlist(payload)
  \/ \E id \in StoreIds : RemoveFromWishlist(id)
  \/ \E id \in StoreIds, alert \in Alerts : SetWishlistAlert(id, alert)
  \/ \E id \in StoreIds : ClearWishlistAlert(id)

Spec == Init /\ [][Next]_vars

----------------------------------------------------------------------------
(* Properties of the cart store *)

RECURSIVE Sum(_, _)
Sum(f, n) == IF n = 0 THEN 0 ELSE f[n] + Sum(f, n - 1)

LinesOf(items, id) == {i \in 1..Len(items) : items[i].id = id}

Dispatched(type) == last'.action.type = type

\* C1: the cart never holds two lines with the same product id, and an
\* addToCart for an id that has a line keeps the number of lines and adds 1
\* to that line's quantity.
C1_OneLinePerId ==
  /\ [](\A id \in Ids : Cardinality(LinesOf(cart.items, id)) <= 1)
  /\ [][Dispatched("cart/addToCart")
          /\ LinesOf(cart.items, last'.action.payload.id) # {}
        => /\ Len(cart'.items) = Len(cart.items)
           /\ \A i \in LinesOf(cart.items, last'.action.payload.id) :
                cart'.items[i].quantity = cart.items[i].quantity + 1]_vars

\* two adds of one id: a single line with quantity 2
C1_Witness ==
  /\ last.action.type = "cart/addToCart"
  /\ last.found
  /\ Len(cart.items) = 1
  /\ cart.items[1].quantity = 2

\* C2: the stored totals equal the sums over the current lines after every
\* cart action, and clearCart leaves no line and three zero totals.
C2_TotalsMatchLines ==
  LET items == cart.items
      n == Len(items)
  IN  /\ cart.totalItems = Sum([i \in 1..n |-> items[i].quantity], n)
      /\ cart.totalPrice =
           Sum([i \in 1..n |-> items[i].price * items[i].quantity], n)
      /\ cart.totalDiscount =
           Sum([i \in 1..n |->
                  (items[i].price - items[i].discount.discountedPrice)
                    * items[i].quantity], n)
      /\ last.action.type = "cart/clearCart"
           => /\ items = <<>>
              /\ cart.totalItems = 0
              /\ cart.totalPrice = 0
              /\ cart.totalDiscount = 0

\* a removal that leaves a line of two units behind, with its totals
C2_Witness ==
  /\ last.action.type = "cart/removeFromCart"
  /\ last.found
  /\ Len(cart.items) = 1
  /\ cart.items[1].quantity = 2
  /\ cart.totalItems = 2
  /\ cart.totalDiscount > 0

\* C3: updateQuantity(id, q) on an id that has a line removes the line when
\* q <= 0 and sets its quantity to q when q >= 1; the other lines stay.
C3_SetQuantity ==
  [][Dispatched("cart/updateQuantity")
       /\ LinesOf(cart.items, last'.action.payload.id) # {}
     => LET id == last'.action.payload.id
            q == last'.action.payload.quantity
        IN  IF q <= 0
            THEN cart'.items = SelectSeq(cart.items, LAMBDA l : l.id # id)
            ELSE /\ Len(cart'.items) = Len(cart.items)
                 /\ \A i \in 1..Len(cart.items) :
                      IF cart.items[i].id = id
                      THEN cart'.items[i] = [cart.items[i] EXCEPT !.quantity = q]
                      ELSE cart'.items[i] = cart.items[i]]_vars

\* a negative quantity has removed a line and the other line is still there
C3_Witness ==
  /\ last.action.type = "cart/updateQuantity"
  /\ last.found
  /\ last.action.payload.quantity < 0
  /\ LinesOf(cart.items, last.action.payload.id) = {}
  /\ Len(cart.items) = 1

\* C4: every line of the cart has a quantity of at least 1.
C4_QuantityPositive ==
  \A i \in 1..Len(cart.items) : cart.items[i].quantity >= 1

\* a quantity of 0 was set on a line of a cart that still has a line
C4_Witness ==
  /\ last.action.type = "cart/updateQuantity"
  /\ last.found
  /\ last.action.payload.quantity = 0
  /\ Len(cart.items) = 1

\* C5: addToCart for an id that has a line changes that line's quantity
\* only: title, price, image and discount stay as first stored, and the
\* other lines stay as they are.
C5_SnapshotKept ==
  [][Dispatched("cart/addToCart")
       /\ LinesOf(cart.items, last'.action.payload.id) # {}
     => /\ Len(cart'.items) = Len(cart.items)
        /\ \A i \in 1..Len(cart.items) :
             IF cart.items[i].id = last'.action.payload.id
             THEN cart'.items[i] = [cart.items[i] EXCEPT !.quantity = @ + 1]
             ELSE cart'.items[i] = cart.items[i]]_vars

\* a second add whose payload carries another price and another discount
C5_Witness ==
  /\ last.action.type = "cart/addToCart"
  /\ last.found
  /\ \E i \in 1..Len(cart.items) :
       /\ cart.items[i].id = last.action.payload.id
       /\ cart.items[i].quantity = 2
       /\ cart.items[i].price # last.action.payload.price
       /\ cart.items[i].discount # last.action.payload.discount

----------------------------------------------------------------------------
(* Properties of the whole store *)

\* C6: an action of one slice changes no other slice: catalog actions
\* (fetch start, fetch completion, regenerateDiscounts) leave the cart and
\* the wishlist as they are, cart actions leave the catalog and the
\* wishlist, wishlist actions leave the catalog and the cart.
C6_StoresIndependent ==
  [][/\ last'.action.type \in ProductsTypes
          => cart' = cart /\ wishlist' = wishlist
     /\ last'.action.type \in CartTypes
          => products' = products /\ wishlist' = wishlist
     /\ last'.action.type \in WishlistTypes
          => products' = products /\ cart' = cart]_vars

\* the catalog has changed the discount of a product after it went into
\* the cart and the wishlist, and both still hold the one they captured
C6_Witness ==
  /\ last.action.type \in
       {"products/regenerateDiscounts", "products/fetchProducts/fulfilled"}
  /\ \E i \in 1..Len(products.items), j \in 1..Len(cart.items),
        k \in 1..Len(wishlist.items) :
       /\ cart.items[j].id = products.items[i].id
       /\ wishlist.items[k].id = products.items[i].id
       /\ cart.items[j].discount # products.items[i].discount
       /\ wishlist.items[k].discount # products.items[i].discount

----------------------------------------------------------------------------
(* Properties of the catalog fetch *)

Completion ==
  \/ Dispatched("products/fetchProducts/fulfilled")
  \/ Dispatched("products/fetchProducts/rejected")

\* C7: a failed fetch sets status to 'failed' and error to a non-empty
\* string, the thrown error's message or else the generic failure string,
\* and leaves the loaded items as they were.
C7_FetchFailure ==
  [][Dispatched("products/fetchProducts/rejected")
     => LET message == last'.action.error.message
        IN  /\ products'.status = "failed"
            /\ products'.error # None
            /\ products'.error[1] # ""
            /\ products'.error[1] =
                 (IF message = None THEN "Failed to fetch products"
                  ELSE message[1])
            /\ products'.items = products.items]_vars

\* a fetch failed without a message while products were loaded
C7_Witness ==
  /\ last.action.type = "products/fetchProducts/rejected"
  /\ last.action.error.message = None
  /\ products.status = "failed"
  /\ products.error = Some("Failed to fetch products")
  /\ Len(products.items) = 2

\* C8: after a successful fetch status is 'succeeded', items are the
\* fetched list and error is cleared.
C8_SuccessClearsError ==
  last.action.type = "products/fetchProducts/fulfilled"
    => /\ products.status = "succeeded"
       /\ products.items = last.action.payload
       /\ products.error = None

StripDiscounts(items) ==
  [i \in 1..Len(items) |->
     [f \in DOMAIN items[i] \ {"discount"} |-> items[i][f]]]

\* C9: once all of several overlapping fetches have completed, items are
\* those of the last fulfilled completion (up to regenerated discounts) and
\* status and error are those of the last completion: 'succeeded' without
\* an error after a success, 'failed' with that failure's message after a
\* failure.
C9_LastCompletionWins ==
  overlapped /\ inflight = {}
    => /\ lastFulfilled # None
            => StripDiscounts(products.items) = StripDiscounts(lastFulfilled[1])
       /\ lastFulfilled = None => products.items = <<>>
       /\ IF lastDone.kind = "fulfilled"
          THEN products.status = "succeeded" /\ products.error = None
          ELSE /\ products.status = "failed"
               /\ products.error =
                    Some(IF lastDone.message = None
                         THEN "Failed to fetch products"
                         ELSE lastDone.message[1])

\* C10 as stated: every completion finds the status 'loading' and leaves
\* it 'succeeded' or 'failed'.
C10_LoadingUntilCompletion ==
  [][Completion
     => /\ products.status = "loading"
        /\ products'.status \in {"succeeded", "failed"}]_vars

\* C10, amended: a fetch completes once, by fulfilled or by rejected, and
\* the completion leaves the status 'succeeded' or 'failed' accordingly;
\* the status is 'loading' exactly from a dispatch to the next completion
\* of any fetch, so a completion finds 'loading' exactly when no other
\* completion has arrived since the latest dispatch.
C10_LoadingUntilNextCompletion ==
  /\ [](products.status = "loading" <=> (started > 0 /\ ~settled))
  /\ [][Completion
        => /\ lastDone'.requestId \in inflight
           /\ inflight' = inflight \ {lastDone'.requestId}
           /\ lastDone'.kind = "fulfilled" => products'.status = "succeeded"
           /\ lastDone'.kind = "rejected" => products'.status = "failed"
           /\ products.status = "loading" <=> ~settled]_vars
  /\ [][\A r \in 1..started : r \notin inflight => r \notin inflight']_vars

\* a fetch is still in flight after the completion of an overlapping one
C10_Witness ==
  /\ overlapped
  /\ inflight # {}
  /\ settled
  /\ last.action.type = "products/fetchProducts/fulfilled"
  /\ products.status = "succeeded"

----------------------------------------------------------------------------
(* Properties of the wishlist store *)

\* C11: the wishlist never holds two entries with the same product id; an
\* addToWishlist for an id that has an entry leaves the list exactly as it
\* is, and one for a new id appends the payload as given.
C11_OneEntryPerId ==
  /\ [](\A id \in Ids : Cardinality(LinesOf(wishlist.items, id)) <= 1)
  /\ [][Dispatched("wishlist/addToWishlist")
        => IF LinesOf(wishlist.items, last'.action.payload.id) # {}
           THEN wishlist' = wishlist
           ELSE wishlist'.items =
                  Append(wishlist.items, last'.action.payload)]_vars

\* an add for an id whose entry has an alert and another price than the
\* payload: the entry still has both
C11_Witness ==
  /\ last.action.type = "wishlist/addToWishlist"
  /\ last.found
  /\ Len(wishlist.items) = 2
  /\ \E i \in 1..Len(wishlist.items) :
       /\ wishlist.items[i].id = last.action.payload.id
       /\ HasAlert(wishlist.items[i])
       /\ wishlist.items[i].price # last.action.payload.price

\* C12: removeFromCart and updateQuantity for an id without a line leave
\* the cart as it is, and removeFromWishlist, setWishlistAlert and
\* clearWishlistAlert for an id without an entry leave the wishlist as it
\* is.
C12_AbsentIdNoOp ==
  [][/\ (Dispatched("cart/removeFromCart")
           /\ LinesOf(cart.items, last'.action.payload) = {})
          => cart' = cart
     /\ (Dispatched("cart/updateQuantity")
           /\ LinesOf(cart.items, last'.action.payload.id) = {})
          => cart' = cart
     /\ (Dispatched("wishlist/removeFromWishlist")
           /\ LinesOf(wishlist.items, last'.action.payload) = {})
          => wishlist' = wishlist
     /\ (Dispatched("wishlist/setWishlistAlert")
           /\ LinesOf(wishlist.items, last'.action.payload.productId) = {})
          => wishlist' = wishlist
     /\ (Dispatched("wishlist/clearWishlistAlert")
           /\ LinesOf(wishlist.items, last'.action.payload) = {})
          => wishlist' = wishlist]_vars

\* an alert was set for an id without an entry while the cart and the
\* wishlist hold another product
C12_Witness ==
  /\ last.action.type = "wishlist/setWishlistAlert"
  /\ ~last.found
  /\ Len(wishlist.items) = 1
  /\ wishlist.items[1].id # last.action.payload.productId
  /\ Len(cart.items) = 1
  /\ cart.items[1].quantity = 2

----------------------------------------------------------------------------
(* Properties of the wishlist views *)

\* fulfilment as the claims state it, on the entry's own discount
AlertMet(e) ==
  /\ "alert" \in DOMAIN e
  /\ \/ e.alert.type = "price" /\ e.discount.discountedPrice <= e.alert.value
     \/ e.alert.type = "percentage" /\ e.discount.percentage >= e.alert.value

\* C13: an entry without an alert is never fulfilled; one with a 'price'
\* alert is fulfilled exactly when its discountedPrice <= alert.value, one
\* with a 'percentage' alert exactly when its percentage >= alert.value.
C13_AlertFulfilment ==
  view.of = "isAlertFulfilled"
    => /\ ~("alert" \in DOMAIN view.item) => view.result = FALSE
       /\ view.result = AlertMet(view.item)

\* a price alert whose value is the entry's discounted price
C13_Witness ==
  /\ view.of = "isAlertFulfilled"
  /\ "alert" \in DOMAIN view.item
  /\ view.item.alert.type = "price"
  /\ view.item.discount.discountedPrice = view.item.alert.value
  /\ view.result = TRUE

\* C20: the displayed wishlist holds the stored entries, each once, the
\* fulfilled ones first, and the entries of either group in their stored
\* order.
C20_FulfilledFirst ==
  view.of = "sortedItems"
    => /\ Len(view.result) = Len(view.items)
       /\ \A i, j \in 1..Len(view.result) :
            i < j => ~(~AlertMet(view.result[i]) /\ AlertMet(view.result[j]))
       /\ SelectSeq(view.result, AlertMet) = SelectSeq(view.items, AlertMet)
       /\ SelectSeq(view.result, LAMBDA e : ~AlertMet(e))
            = SelectSeq(view.items, LAMBDA e : ~AlertMet(e))

\* three entries, the fulfilled one stored between two that are not
C20_Witness ==
  /\ view.of = "sortedItems"
  /\ Len(view.items) = 3
  /\ ~AlertMet(view.items[1])
  /\ AlertMet(view.items[2])
  /\ ~AlertMet(view.items[3])
  /\ view.result = <<view.items[2], view.items[1], view.items[3]>>

----------------------------------------------------------------------------
(* Properties of the discounts *)

\* c is n hundredths of a cent rounded to whole cents, halves upwards
NearestCent(c, n) == 100 * c - 50 <= n /\ n < 100 * c + 50

DrawsGiving(q) == {r \in RawDraws : roundedDiscount(r) = q}

\* C15: the percentage of a product is one of the nine values, and each of
\* the nine is produced by the same number of raw integer draws.
C15_Uniform ==
  \A i \in 1..Len(products.items) :
    /\ products.items[i].discount.percentage \in {5 * k : k \in 2..10}
    /\ \A k \in 2..10 :
         Cardinality(DrawsGiving(5 * k))
           = Cardinality(DrawsGiving(products.items[i].discount.percentage))

\* C15, amended: the percentage of a product is one of the nine values;
\* of the 41 raw draws, 3 give 10, 3 give 50 and 5 give each of 15..45.
C15_EndsHalved ==
  \A i \in 1..Len(products.items) :
    LET q == products.items[i].discount.percentage
    IN  /\ q \in {5 * k : k \in 2..10}
        /\ Cardinality(DrawsGiving(q)) = IF q \in {10, 50} THEN 3 ELSE 5
        /\ Cardinality(RawDraws) = 41

\* a product whose percentage came out at the lower end
C15_Witness ==
  /\ last.action.type = "products/fetchProducts/fulfilled"
  /\ Len(products.items) = 1
  /\ products.items[1].discount.percentage = 10

----------------------------------------------------------------------------
(* Properties of the catalog *)

\* C16: regenerateDiscounts keeps the number and the order of the products
\* and each product's id, title, price, description, category and image,
\* and it keeps status, error and the filter criteria.
C16_OnlyDiscounts ==
  [][Dispatched("products/regenerateDiscounts")
     => /\ Len(products'.items) = Len(products.items)
        /\ \A i \in 1..Len(products.items) :
             /\ DOMAIN products'.items[i] = DOMAIN products.items[i]
             /\ \A f \in {"id", "title", "price", "description",
                          "category", "image"} :
                  products'.items[i][f] = products.items[i][f]
        /\ products'.status = products.status
        /\ products'.error = products.error
        /\ products'.filters = products.filters]_vars

\* the discounts of two loaded products were regenerated while a failure
\* was on record and filter criteria were set
C16_Witness ==
  /\ last.action.type = "products/regenerateDiscounts"
  /\ Len(products.items) = 2
  /\ products.items[1].id = 2
  /\ products.items[1].discount.percentage # products.items[2].discount.percentage
  /\ products.status = "failed"
  /\ products.error # None
  /\ products.filters.category # <<>>
  /\ products.filters.sortBy = "lowestPrice"
  /\ products.filters.searchQuery # <<>>

----------------------------------------------------------------------------
(* Properties of the product grid *)

Range(seq) == {seq[i] : i \in 1..Len(seq)}

IsSubstring(sub, str) ==
  \E k \in 0..(Len(str) - Len(sub)) : SubSeq(str, k + 1, k + Len(sub)) = sub

\* the product p passes the search text q and the category set c
Visible(p, q, c) ==
  /\ \/ q = <<>>
     \/ IsSubstring(toLowerCase(q), toLowerCase(p.title))
     \/ IsSubstring(toLowerCase(q), toLowerCase(p.description))
     \/ IsSubstring(toLowerCase(q), toLowerCase(p.category))
  /\ \/ c = <<>>
     \/ p.category \in Range(c)

\* C17: the visible products are exactly the catalog products that pass
\* the search text (in title, description or category, whatever the case
\* of the letters; an empty text passes all) and the category set (an
\* empty set passes all), each once.
C17_VisibleProducts ==
  view.of = "filteredAndSortedItems"
    => LET q == view.filters.searchQuery
           c == view.filters.category
           shown == {p \in Range(view.items) : Visible(p, q, c)}
       IN  /\ Range(view.result) = shown
           /\ Len(view.result) = Cardinality(shown)

\* a text found in the description only of one product and in the
\* category only of no product, with a category set that passes it
C17_Witness ==
  /\ view.of = "filteredAndSortedItems"
  /\ view.filters.searchQuery = <<"a", "b">>
  /\ view.filters.category = <<<<"B">>>>
  /\ Len(view.items) = 3
  /\ Len(view.result) = 1
  /\ view.result[1].id = 2
  /\ ~IsSubstring(<<"a", "b">>, toLowerCase(view.result[1].title))

\* position of the product p in the catalog list
PositionIn(items, p) == CHOOSE i \in 1..Len(items) : items[i] = p

\* the sort key that must not increase along the list
SortKey(p, sortBy) ==
  CASE sortBy = "biggestDiscount" -> p.discount.percentage
    [] sortBy = "biggestSaving" -> p.discount.savings
    [] sortBy = "lowestPrice" -> 0 - p.discount.discountedPrice
    [] sortBy = "highestPrice" -> p.discount.discountedPrice

\* C18: the visible list is in the order of sortBy: percentage, savings or
\* discountedPrice not increasing for biggestDiscount, biggestSaving and
\* highestPrice, discountedPrice not decreasing for lowestPrice; products
\* with equal keys are in their catalog order.
C18_SortedStable ==
  view.of = "filteredAndSortedItems"
    => \A i, j \in 1..Len(view.result) :
         i < j =>
           LET ki == SortKey(view.result[i], view.filters.sortBy)
               kj == SortKey(view.result[j], view.filters.sortBy)
           IN  /\ ki >= kj
               /\ ki = kj => PositionIn(view.items, view.result[i])
                               < PositionIn(view.items, view.result[j])

\* by price downwards: the dearest product moved from the middle to the
\* front and the two of equal price stayed in catalog order
C18_Witness ==
  /\ view.of = "filteredAndSortedItems"
  /\ view.filters.sortBy = "highestPrice"
  /\ Len(view.items) = 3
  /\ Len(view.result) = 3
  /\ view.result = <<view.items[2], view.items[1], view.items[3]>>
  /\ view.items[1].discount.discountedPrice
       = view.items[3].discount.discountedPrice

\* the category filter first, the search filter second, the sort last
CategoryThenSearch(items, filters) ==
  sortItems(searchFilter(categoryFilter(items, filters.category),
                         filters.searchQuery),
            filters.sortBy)

\* C19: filtering by category and then by search text gives the visible
\* list, products and order, that search and then category gives.
C19_FiltersCommute ==
  view.of = "filteredAndSortedItems"
    => view.result = CategoryThenSearch(view.items, view.filters)

\* both filters are set and each removes a product the other keeps
C19_Witness ==
  /\ view.of = "filteredAndSortedItems"
  /\ view.filters.searchQuery # <<>>
  /\ view.filters.category # <<>>
  /\ Len(view.result) >= 1
  /\ Len(searchFilter(view.items, view.filters.searchQuery))
       > Len(view.result)
  /\ Len(categoryFilter(view.items, view.filters.category))
       > Len(view.result)

----------------------------------------------------------------------------
(* Properties of the alerts *)

\* C21: setWishlistAlert on an id that has an entry makes the alert of that
\* entry the alert given, whatever alert it had, and changes no other field
\* of the entry and no other entry; clearWishlistAlert on an id that has an
\* entry leaves the entry without alert, so that it is not fulfilled.
C21_AlertReplaced ==
  [][/\ (Dispatched("wishlist/setWishlistAlert")
           /\ LinesOf(wishlist.items, last'.action.payload.productId) # {})
          => /\ Len(wishlist'.items) = Len(wishlist.items)
             /\ \A i \in 1..Len(wishlist.items) :
                  IF wishlist.items[i].id = last'.action.payload.productId
                  THEN /\ DOMAIN wishlist'.items[i]
                            = DOMAIN wishlist.items[i] \cup {"alert"}
                       /\ wishlist'.items[i].alert = last'.action.payload.alert
                       /\ \A f \in DOMAIN wishlist.items[i] \ {"alert"} :
                            wishlist'.items[i][f] = wishlist.items[i][f]
                  ELSE wishlist'.items[i] = wishlist.items[i]
     /\ (Dispatched("wishlist/clearWishlistAlert")
           /\ LinesOf(wishlist.items, last'.action.payload) # {})
          => /\ Len(wishlist'.items) = Len(wishlist.items)
             /\ \A i \in LinesOf(wishlist.items, last'.action.payload) :
                  /\ "alert" \notin DOMAIN wishlist'.items[i]
                  /\ ~isAlertFulfilled(wishlist'.items[i])]_vars

\* an alert was cleared on one of two entries and the other has its alert
C21_Witness ==
  /\ last.action.type = "wishlist/clearWishlistAlert"
  /\ last.found
  /\ Len(wishlist.items) = 2
  /\ \E i, j \in 1..2 :
       /\ wishlist.items[i].id = last.action.payload
       /\ ~HasAlert(wishlist.items[i])
       /\ HasAlert(wishlist.items[j])
       /\ wishlist.items[j].alert.type = "percentage"

----------------------------------------------------------------------------
(* Properties of the filter criteria *)

\* C22: setCategory(c) adds c to the active categories when it is absent
\* and removes it when present, the other members staying as they are; no
\* category is ever active twice, and two setCategory(c) in a row give the
\* set of active categories there was.
C22_Toggle ==
  /\ [](\A i, j \in 1..Len(products.filters.category) :
          products.filters.category[i] = products.filters.category[j] => i = j)
  /\ [](\A c \in CatalogCategories :
          Range(setCategory(setCategory(products, c), c).filters.category)
            = Range(products.filters.category))
  /\ [][Dispatched("products/setCategory")
        => LET c == last'.action.payload
               old == products.filters.category
               new == products'.filters.category
           IN  /\ c \in Range(new) <=> c \notin Range(old)
               /\ SelectSeq(new, LAMBDA x : x # c)
                    = SelectSeq(old, LAMBDA x : x # c)]_vars

\* the first of two active categories was taken out and the other stayed
C22_Witness ==
  /\ last.action.type = "products/setCategory"
  /\ Len(products.filters.category) = 1
  /\ products.filters.category[1] # last.action.payload
  /\ products.filters.category[1] = <<"B">>

\* C23: setSortBy(m) makes sortBy m and setSearchQuery(t) makes searchQuery
\* t, the empty text included; a filter action changes its own field of
\* the filters and nothing else of the catalog; fetch start, fetch
\* completion and regenerateDiscounts leave the filters as they are;
\* sortBy starts as biggestDiscount and is always one of the four orders.
C23_OwnSetterOnly ==
  /\ products.filters.sortBy = "biggestDiscount"
  /\ [](products.filters.sortBy \in SortOrders)
  /\ [][/\ Dispatched("products/setSortBy")
             => /\ products'.filters.sortBy = last'.action.payload
                /\ products' = [products EXCEPT
                                  !.filters.sortBy = last'.action.payload]
        /\ Dispatched("products/setSearchQuery")
             => /\ products'.filters.searchQuery = last'.action.payload
                /\ products' = [products EXCEPT
                                  !.filters.searchQuery = last'.action.payload]
        /\ Dispatched("products/setCategory")
             => products' = [products EXCEPT
                               !.filters.category = products'.filters.category]
        /\ last'.action.type \in
             {"products/fetchProducts/pending",
              "products/fetchProducts/fulfilled",
              "products/fetchProducts/rejected",
              "products/regenerateDiscounts"}
             => products'.filters = products.filters]_vars

\* the search text was set to the empty text while products were loaded
\* and the other criteria were not the initial ones
C23_Witness ==
  /\ last.action.type = "products/setSearchQuery"
  /\ last.action.payload = <<>>
  /\ products.filters.searchQuery = <<>>
  /\ products.filters.sortBy = "highestPrice"
  /\ Len(products.filters.category) = 2
  /\ Len(products.items) = 2

----------------------------------------------------------------------------
(* Properties of the category buttons *)

\* position of the first item of the category c
FirstOf(items, c) ==
  CHOOSE i \in 1..Len(items) :
    /\ items[i].category = c
    /\ \A j \in 1..(i - 1) : items[j].category # c

\* C24: the categories offered are the categories of the products of the
\* catalog, each once, in the order of their first products in the list.
C24_CategoriesFirstSeen ==
  view.of = "categories"
    => /\ Range(view.result) = {view.items[i].category : i \in 1..Len(view.items)}
       /\ \A a, b \in 1..Len(view.result) :
            /\ view.result[a] = view.result[b] => a = b
            /\ a < b => FirstOf(view.items, view.result[a])
                          < FirstOf(view.items, view.result[b])

\* the first and the third product have one category, the second another
C24_Witness ==
  /\ view.of = "categories"
  /\ Len(view.items) = 3
  /\ view.items[1].category = view.items[3].category
  /\ view.items[1].category # view.items[2].category
  /\ view.result = <<view.items[1].category, view.items[2].category>>

----------------------------------------------------------------------------
(* Properties of the cart drawer and of the cart totals *)

\* C25: setCartOpen(b) makes the drawer flag b and changes no line and no
\* total; addToCart, removeFromCart, updateQuantity and clearCart leave the
\* drawer flag as it is.
C25_DrawerApart ==
  [][/\ Dispatched("cart/setCartOpen")
          => cart' = [cart EXCEPT !.isOpen = last'.action.payload]
     /\ last'.action.type \in
          {"cart/addToCart", "cart/removeFromCart", "cart/updateQuantity",
           "cart/clearCart"}
          => cart'.isOpen = cart.isOpen]_vars

\* the cart was cleared with the drawer open
C25_Witness ==
  /\ last.action.type = "cart/clearCart"
  /\ cart.isOpen
  /\ cart.items = <<>>

----------------------------------------------------------------------------
(* Properties of the search bar *)

\* C26: from a press of the clear button until the next edit of the input
\* the search text of the store is empty; a setSearchQuery that typing had
\* scheduled before the press does not bring the old text back.
C26_ClearedStaysEmpty == cleared => products.filters.searchQuery = <<>>

\* C27: totalItems is 0 exactly when the cart has no lines, so the cart
\* screen shows its empty state exactly for a cart without lines.
C27_EmptyIffNoLines ==
  /\ cart.totalItems = 0 <=> cart.items = <<>>
  /\ showsEmptyState(cart) <=> Len(cart.items) = 0

\* the quantity of the only line was set below 1
C27_Witness ==
  /\ last.action.type = "cart/updateQuantity"
  /\ last.found
  /\ last.action.payload.quantity < 0
  /\ cart.items = <<>>
  /\ showsEmptyState(cart)

\* C28: with lines whose snapshots have 0 <= discountedPrice <= price,
\* 0 <= totalDiscount <= totalPrice, and the final total shown,
\* totalPrice - totalDiscount, is the sum of discountedPrice * quantity
\* over the lines.
C28_FinalTotal ==
  LET items == cart.items
      n == Len(items)
  IN  (\A i \in 1..n :
         /\ 0 <= items[i].discount.discountedPrice
         /\ items[i].discount.discountedPrice <= items[i].price)
        => /\ 0 <= cart.totalDiscount
           /\ cart.totalDiscount <= cart.totalPrice
           /\ finalTotal(cart) =
                Sum([i \in 1..n |->
                       items[i].discount.discountedPrice * items[i].quantity], n)

\* two lines, one of them with three units, and a discount on the total
C28_Witness ==
  /\ Len(cart.items) = 2
  /\ \E i \in 1..2 : cart.items[i].quantity = 3
  /\ cart.totalDiscount > 0
  /\ finalTotal(cart) > 0
  /\ finalTotal(cart) < cart.totalPrice

----------------------------------------------------------------------------
(* Properties of the order of lines and entries *)

IdsOf(items) == [i \in 1..Len(items) |-> items[i].id]

\* from old to new the ids that stay keep their order, and an id that is
\* new is the last
KeepsOrder(old, new) ==
  /\ SelectSeq(old, LAMBDA id : id \in Range(new))
       = SelectSeq(new, LAMBDA id : id \in Range(old))
  /\ \A id \in Range(new) \ Range(old) : new = Append(old, id)

\* C29: every action keeps the lines of the cart and the entries of the
\* wishlist that stay in the order they had and puts a new id at the end;
\* setting a quantity of 1 or more, adding a unit to a line, setting an
\* alert and clearing one move no line and no entry.
C29_InsertionOrder ==
  [][/\ KeepsOrder(IdsOf(cart.items), IdsOf(cart'.items))
     /\ KeepsOrder(IdsOf(wishlist.items), IdsOf(wishlist'.items))
     /\ (Dispatched("cart/updateQuantity")
           /\ last'.action.payload.quantity >= 1)
          => IdsOf(cart'.items) = IdsOf(cart.items)
     /\ (Dispatched("cart/addToCart")
           /\ LinesOf(cart.items, last'.action.payload.id) # {})
          => IdsOf(cart'.items) = IdsOf(cart.items)
     /\ last'.action.type \in
          {"wishlist/setWishlistAlert", "wishlist/clearWishlistAlert"}
          => IdsOf(wishlist'.items) = IdsOf(wishlist.items)]_vars

\* an alert was set on the first of three entries, which were not added in
\* the order of their ids, and the cart holds two lines
C29_Witness ==
  /\ last.action.type = "wishlist/setWishlistAlert"
  /\ last.found
  /\ IdsOf(wishlist.items) = <<3, 1, 2>>
  /\ last.action.payload.productId = 3
  /\ IdsOf(cart.items) = <<2, 1>>

----------------------------------------------------------------------------
(* Properties of the views as computations *)

\* number of times x is in seq
Count(seq, x) == Cardinality({i \in 1..Len(seq) : seq[i] = x})

\* C30: computing the visible products leaves the items of the catalog as
\* they are, content and order, and computing the displayed wishlist
\* leaves the stored entries as they are; a visible product is a product
\* of the catalog and is there no more often than in the catalog.
C30_ViewsPure ==
  /\ [][/\ products' = products
        /\ cart' = cart
        /\ wishlist' = wishlist]_vars
  /\ [](view.of = "filteredAndSortedItems"
          => /\ view.items = products.items
             /\ \A p \in Range(view.result) :
                  /\ p \in Range(products.items)
                  /\ Count(view.result, p) <= Count(products.items, p))
  /\ [](view.of = "sortedItems" => view.items = wishlist.items)

\* all three products are visible, without filter, in another order than
\* the catalog has
C30_Witness ==
  /\ view.of = "filteredAndSortedItems"
  /\ view.filters.searchQuery = <<>>
  /\ view.filters.category = <<>>
  /\ Len(view.result) = 3
  /\ view.result # products.items
  /\ view.items = products.items

====
